---- MODULE Spec2Model ----
(***************************************************************************)
(* Model of circbuf-rs: CircBuf<T, SIZE>, a circular buffer of constant    *)
(* size (src/src/lib.rs).  The buffer is the record buf = [start, len,     *)
(* data]; every method of the crate is an operator of the same name, and   *)
(* every action is one call of a method by the host program.               *)
(***************************************************************************)
EXTENDS Integers, Sequences, FiniteSets, TLC

\* ---- bounds of the exploration ----------------------------------------
MaxSize == 3      \* capacities SIZE explored: 0..MaxSize
MaxOps == 6       \* number of push / pop / index_mut calls in one run
MaxWrites == 1    \* number of index_mut calls in one run
MaxIters == 2     \* number of cursors alive at one time

VARIABLES SIZE, buf, alive, dropped, hist, pre, last, iters, preIters

vars == <<SIZE, buf, alive, dropped, hist, pre, last, iters, preIters>>

\* ---- values -----------------------------------------------------------
\* T is an unconstrained type parameter: the code moves elements and never
\* inspects one.  The elements are the positive integers, and the host
\* program hands the buffer a value it has not handed it before (Fresh), so
\* that an element is told apart from every other one.

\* The content of a MaybeUninit cell that was never written.
Uninit == 0

\* Option<T>
None == [some |-> FALSE, val |-> Uninit]
Some(x) == [some |-> TRUE, val |-> x]

NoIdx == 0 - 1

\* ---- CircBuf ----------------------------------------------------------
Cells == 0 .. (SIZE - 1)

new == [start |-> 0, len |-> 0, data |-> [c \in Cells |-> Uninit]]

len(self) == self.len

is_empty(self) == self.len = 0

is_full(self) == self.len = SIZE

\* Dropping a MaybeUninit<T> runs no destructor of T: the sequence of
\* elements it releases is empty.
MaybeUninitDrop(cell) == << >>

\* A push that overwrites the oldest cell of a full buffer and forgets to
\* advance start.
push_no_advance(self, elem) ==
    IF SIZE = 0
    THEN [panic |-> TRUE, self |-> self, cell |-> NoIdx, released |-> <<elem>>]
    ELSE LET write_idx == (self.start + self.len) % SIZE
             written == [self EXCEPT !.data[write_idx] = elem]
         IN [panic |-> FALSE,
             self |-> IF is_full(self)
                      THEN written
                      ELSE [written EXCEPT !.len = self.len + 1],
             cell |-> write_idx,
             released |-> MaybeUninitDrop(self.data[write_idx])]

\* A push that computes the write index from len alone.
push_wrong_slot(self, elem) ==
    IF SIZE = 0
    THEN [panic |-> TRUE, self |-> self, cell |-> NoIdx, released |-> <<elem>>]
    ELSE LET write_idx == self.len % SIZE
             written == [self EXCEPT !.data[write_idx] = elem]
         IN [panic |-> FALSE,
             self |-> IF is_full(self)
                      THEN [written EXCEPT !.start = (self.start + 1) % SIZE]
                      ELSE [written EXCEPT !.len = self.len + 1],
             cell |-> write_idx,
             released |-> MaybeUninitDrop(self.data[write_idx])]

\* A push that grows the buffer even when it is full.
push_always_grows(self, elem) ==
    IF SIZE = 0
    THEN [panic |-> TRUE, self |-> self, cell |-> NoIdx, released |-> <<elem>>]
    ELSE LET write_idx == (self.start + self.len) % SIZE
             written == [self EXCEPT !.data[write_idx] = elem]
         IN [panic |-> FALSE,
             self |-> [written EXCEPT !.len = self.len + 1],
             cell |-> write_idx,
             released |-> MaybeUninitDrop(self.data[write_idx])]

\* A push that counts the new element before it computes the write index.
push_next_slot(self, elem) ==
    IF SIZE = 0
    THEN [panic |-> TRUE, self |-> self, cell |-> NoIdx, released |-> <<elem>>]
    ELSE LET write_idx == (self.start + self.len + 1) % SIZE
             written == [self EXCEPT !.data[write_idx] = elem]
         IN [panic |-> FALSE,
             self |-> IF is_full(self)
                      THEN [written EXCEPT !.start = (self.start + 1) % SIZE]
                      ELSE [written EXCEPT !.len = self.len + 1],
             cell |-> write_idx,
             released |-> MaybeUninitDrop(self.data[write_idx])]

\* push: the result holds the buffer afterwards, whether the call
\* panicked, the cell written and the elements the call released.  With
\* SIZE = 0 the remainder panics while push owns elem, and the unwinding
\* drops elem.
push(self, elem) ==
    IF SIZE = 0
    THEN [panic |-> TRUE, self |-> self, cell |-> NoIdx, released |-> <<elem>>]
    ELSE LET write_idx == (self.start + self.len) % SIZE
             written == [self EXCEPT !.data[write_idx] = elem]
         IN [panic |-> FALSE,
             self |-> IF is_full(self)
                      THEN [written EXCEPT !.start = (self.start + 1) % SIZE]
                      ELSE [written EXCEPT !.len = self.len + 1],
             cell |-> write_idx,
             released |-> MaybeUninitDrop(self.data[write_idx])]

\* A pop that reads the cell one past the newest element.
pop_reads_end(self) ==
    IF is_empty(self)
    THEN [ret |-> None, self |-> self, cell |-> NoIdx]
    ELSE [ret |-> Some(self.data[(self.start + self.len) % SIZE]),
          self |-> [self EXCEPT !.start = (self.start + 1) % SIZE,
                                !.len = self.len - 1],
          cell |-> (self.start + self.len) % SIZE]

\* A pop that advances start and forgets to decrement len.
pop_keeps_len(self) ==
    IF is_empty(self)
    THEN [ret |-> None, self |-> self, cell |-> NoIdx]
    ELSE [ret |-> Some(self.data[self.start]),
          self |-> [self EXCEPT !.start = (self.start + 1) % SIZE],
          cell |-> self.start]

\* A pop that resets the cell it vacates.
pop_clears_cell(self) ==
    IF is_empty(self)
    THEN [ret |-> None, self |-> self, cell |-> NoIdx]
    ELSE [ret |-> Some(self.data[self.start]),
          self |-> [self EXCEPT !.data[self.start] = Uninit,
                                !.start = (self.start + 1) % SIZE,
                                !.len = self.len - 1],
          cell |-> self.start]

\* A pop that forgets to advance start.
pop_no_advance(self) ==
    IF is_empty(self)
    THEN [ret |-> None, self |-> self, cell |-> NoIdx]
    ELSE [ret |-> Some(self.data[self.start]),
          self |-> [self EXCEPT !.len = self.len - 1],
          cell |-> self.start]

\* A pop that advances start before it looks at the length.
pop_advance_first(self) ==
    IF SIZE = 0
    THEN [ret |-> None, self |-> self, cell |-> NoIdx]
    ELSE IF is_empty(self)
    THEN [ret |-> None,
          self |-> [self EXCEPT !.start = (self.start + 1) % SIZE],
          cell |-> NoIdx]
    ELSE [ret |-> Some(self.data[self.start]),
          self |-> [self EXCEPT !.start = (self.start + 1) % SIZE,
                                !.len = self.len - 1],
          cell |-> self.start]

\* pop: the result holds the buffer afterwards, the Option returned and
\* the cell read as a T (NoIdx when none is read).
pop(self) ==
    IF is_empty(self)
    THEN [ret |-> None, self |-> self, cell |-> NoIdx]
    ELSE [ret |-> Some(self.data[self.start]),
          self |-> [self EXCEPT !.start = (self.start + 1) % SIZE,
                                !.len = self.len - 1],
          cell |-> self.start]

\* An index that forgets the start offset.
index_no_start(self, i) ==
    IF i >= len(self)
    THEN [panic |-> TRUE, ret |-> None, cell |-> NoIdx]
    ELSE IF SIZE = 0
    THEN [panic |-> TRUE, ret |-> None, cell |-> NoIdx]
    ELSE LET c == i % SIZE
         IN [panic |-> FALSE, ret |-> Some(self.data[c]), cell |-> c]

\* An index whose bounds check lets i = len through.
index_off_by_one(self, i) ==
    IF i > len(self)
    THEN [panic |-> TRUE, ret |-> None, cell |-> NoIdx]
    ELSE IF SIZE = 0
    THEN [panic |-> TRUE, ret |-> None, cell |-> NoIdx]
    ELSE LET c == (self.start + i) % SIZE
         IN [panic |-> FALSE, ret |-> Some(self.data[c]), cell |-> c]

\* Index::index: the result holds whether the call panicked, the reference
\* returned (as the element it refers to) and the cell read as a T.
index(self, i) ==
    IF i >= len(self)
    THEN [panic |-> TRUE, ret |-> None, cell |-> NoIdx]
    ELSE IF SIZE = 0
    THEN [panic |-> TRUE, ret |-> None, cell |-> NoIdx]
    ELSE LET c == (self.start + i) % SIZE
         IN [panic |-> FALSE, ret |-> Some(self.data[c]), cell |-> c]

\* An index_mut that forgets the start offset.
index_mut_no_start(self, i) ==
    IF i >= len(self)
    THEN [panic |-> TRUE, ret |-> None, cell |-> NoIdx]
    ELSE IF SIZE = 0
    THEN [panic |-> TRUE, ret |-> None, cell |-> NoIdx]
    ELSE LET c == i % SIZE
         IN [panic |-> FALSE, ret |-> Some(self.data[c]), cell |-> c]

\* IndexMut::index_mut: the same cell, borrowed mutably.
index_mut(self, i) ==
    IF i >= len(self)
    THEN [panic |-> TRUE, ret |-> None, cell |-> NoIdx]
    ELSE IF SIZE = 0
    THEN [panic |-> TRUE, ret |-> None, cell |-> NoIdx]
    ELSE LET c == (self.start + i) % SIZE
         IN [panic |-> FALSE, ret |-> Some(self.data[c]), cell |-> c]

\* Dropping the CircBuf: the struct has no Drop impl, so its drop glue is
\* that of its fields, two usize and an array of MaybeUninit<T>.
RECURSIVE DropCells(_, _)
DropCells(self, c) ==
    IF c >= SIZE THEN << >>
    ELSE MaybeUninitDrop(self.data[c]) \o DropCells(self, c + 1)

drop(self) == DropCells(self, 0)

\* ---- Iter -------------------------------------------------------------
iter(self) == [idx |-> 0]

\* A next that walks the buffer from the newest element to the oldest.
next_reversed(self, it) ==
    IF it.idx < len(self)
    THEN [ret |-> index(self, len(self) - 1 - it.idx).ret,
          it |-> [idx |-> it.idx + 1],
          cell |-> index(self, len(self) - 1 - it.idx).cell]
    ELSE [ret |-> None, it |-> it, cell |-> NoIdx]

\* Iter::next: the result holds the Option returned, the cursor afterwards
\* and the cell read as a T (NoIdx when none is read).
next(self, it) ==
    IF it.idx < len(self)
    THEN [ret |-> index(self, it.idx).ret,
          it |-> [idx |-> it.idx + 1],
          cell |-> index(self, it.idx).cell]
    ELSE [ret |-> None, it |-> it, cell |-> NoIdx]

size_hint(self, it) == <<len(self), Some(len(self))>>

\* The items a cursor yields until next returns None.
RECURSIVE Drain(_, _)
Drain(self, it) ==
    LET r == next(self, it)
    IN IF r.ret.some THEN <<r.ret.val>> \o Drain(self, r.it) ELSE << >>

collect(self) == Drain(self, iter(self))

\* ---- the host program: one action per call ----------------------------
\* The record of one call: the method, its arguments, what it returned,
\* whether it panicked, and the cell it read or wrote as a T.
Call(op, i, e, ret, panic, cell) ==
    [op |-> op, idx |-> i, elem |-> e, ret |-> ret, panic |-> panic, cell |-> cell]

\* The number of pushes in a history of calls.
NPush(h) == Cardinality({k \in 1 .. Len(h) : h[k].op = "push"})

\* The number of writes through index_mut in a history.
NWrite(h) == Cardinality({k \in 1 .. Len(h) : h[k].op = "index_mut" /\ ~h[k].panic})

\* The number of index_mut calls in a history, the panicking ones included.
NIndexMut(h) == Cardinality({k \in 1 .. Len(h) : h[k].op = "index_mut"})

\* The next value of T the host program hands to the buffer.
Fresh(h) == NPush(h) + NIndexMut(h) + 1

\* The cursors of the host program.  A live cursor is the Iter (its idx;
\* its buf is the one buffer) together with the items it has yielded so
\* far; NoIter stands for a cursor that does not exist.
Cursors == 1 .. MaxIters

NoIter == [idx |-> NoIdx, out |-> << >>]

\* An Iter borrows the buffer: no call that takes &mut self, and no drop
\* of the buffer, while a cursor is alive.
NoBorrow == \A c \in Cursors : iters[c] = NoIter

Init ==
    /\ SIZE \in 0 .. MaxSize
    /\ iters = [c \in Cursors |-> NoIter]
    /\ preIters = [c \in Cursors |-> NoIter]
    /\ buf = new
    /\ alive = TRUE
    /\ dropped = << >>
    /\ hist = << >>
    /\ pre = new
    /\ last = Call("new", NoIdx, Uninit, None, FALSE, NoIdx)

\* buf.push(elem)
Push(v) ==
    /\ alive
    /\ NoBorrow
    /\ Len(hist) < MaxOps
    /\ LET r == push(buf, v)
       IN /\ buf' = r.self
          /\ dropped' = dropped \o r.released
          /\ last' = Call("push", NoIdx, v, None, r.panic, r.cell)
    /\ hist' = Append(hist, last')
    /\ pre' = buf
    /\ preIters' = iters
    /\ UNCHANGED <<SIZE, alive, iters>>

\* buf.pop()
Pop ==
    /\ alive
    /\ NoBorrow
    /\ Len(hist) < MaxOps
    /\ LET r == pop(buf)
       IN /\ buf' = r.self
          /\ last' = Call("pop", NoIdx, Uninit, r.ret, FALSE, r.cell)
    /\ hist' = Append(hist, last')
    /\ pre' = buf
    /\ preIters' = iters
    /\ UNCHANGED <<SIZE, alive, dropped, iters>>

\* &buf[i]
Index(i) ==
    /\ alive
    /\ LET r == index(buf, i)
       IN last' = Call("index", i, Uninit, r.ret, r.panic, r.cell)
    /\ pre' = buf
    /\ preIters' = iters
    /\ UNCHANGED <<SIZE, buf, alive, dropped, hist, iters>>

\* buf[i] = v: index_mut and an assignment through the reference it
\* returns.  The assignment drops the element it replaces; when index_mut
\* panics, the unwinding drops v.
IndexMut(i, v) ==
    /\ alive
    /\ NoBorrow
    /\ Len(hist) < MaxOps
    /\ NIndexMut(hist) < MaxWrites
    /\ LET r == index_mut(buf, i)
       IN /\ buf' = IF r.panic THEN buf
                    ELSE [buf EXCEPT !.data[r.cell] = v]
          /\ dropped' = dropped \o (IF r.panic THEN <<v>> ELSE <<r.ret.val>>)
          /\ last' = Call("index_mut", i, v, r.ret, r.panic, r.cell)
    /\ hist' = Append(hist, last')
    /\ pre' = buf
    /\ preIters' = iters
    /\ UNCHANGED <<SIZE, alive, iters>>

\* let it = buf.iter()
IterNew(c) ==
    /\ alive
    /\ iters[c] = NoIter
    /\ iters' = [iters EXCEPT ![c] = [idx |-> iter(buf).idx, out |-> << >>]]
    /\ last' = Call("iter", c, Uninit, None, FALSE, NoIdx)
    /\ pre' = buf
    /\ preIters' = iters
    /\ UNCHANGED <<SIZE, buf, alive, dropped, hist>>

\* it.next()
IterNext(c) ==
    /\ alive
    /\ iters[c] # NoIter
    /\ LET r == next(buf, [idx |-> iters[c].idx])
       IN /\ iters' = [iters EXCEPT ![c] =
                          [idx |-> r.it.idx,
                           out |-> IF r.ret.some THEN Append(@.out, r.ret.val)
                                   ELSE @.out]]
          /\ last' = Call("next", c, Uninit, r.ret, FALSE, r.cell)
    /\ pre' = buf
    /\ preIters' = iters
    /\ UNCHANGED <<SIZE, buf, alive, dropped, hist>>

\* it.size_hint(): the call record holds the lower bound as elem and the
\* upper bound as ret.
SizeHint(c) ==
    /\ alive
    /\ iters[c] # NoIter
    /\ LET r == size_hint(buf, [idx |-> iters[c].idx])
       IN last' = Call("size_hint", c, r[1], r[2], FALSE, NoIdx)
    /\ pre' = buf
    /\ preIters' = iters
    /\ UNCHANGED <<SIZE, buf, alive, dropped, hist, iters>>

\* The cursor goes out of scope.
IterEnd(c) ==
    /\ alive
    /\ iters[c] # NoIter
    /\ iters' = [iters EXCEPT ![c] = NoIter]
    /\ last' = Call("iter_end", c, Uninit, None, FALSE, NoIdx)
    /\ pre' = buf
    /\ preIters' = iters
    /\ UNCHANGED <<SIZE, buf, alive, dropped, hist>>

\* The buffer goes out of scope.
Drop ==
    /\ alive
    /\ NoBorrow
    /\ alive' = FALSE
    /\ dropped' = dropped \o drop(buf)
    /\ last' = Call("drop", NoIdx, Uninit, None, FALSE, NoIdx)
    /\ pre' = buf
    /\ preIters' = iters
    /\ UNCHANGED <<SIZE, buf, hist, iters>>

Next ==
    \/ \E v \in {Fresh(hist)} : Push(v)
    \/ Pop
    \/ \E i \in 0 .. SIZE : Index(i)
    \/ \E i \in 0 .. SIZE, v \in {Fresh(hist)} : IndexMut(i, v)
    \/ Drop

\* The host program that calls the methods of the buffer itself.
Spec == Init /\ [][Next]_vars

NextIter ==
    \/ \E v \in {Fresh(hist)} : Push(v)
    \/ Pop
    \/ \E c \in Cursors : IterNew(c)
    \/ \E c \in Cursors : IterNext(c)
    \/ \E c \in Cursors : SizeHint(c)
    \/ \E c \in Cursors : IterEnd(c)

\* The host program that fills and empties the buffer and iterates over it.
SpecIter == Init /\ [][NextIter]_vars

\* ---- the reference: a bounded FIFO queue ------------------------------
\* push appends at the tail and then removes the head if the length exceeds
\* SIZE; pop removes and returns the head, or returns nothing when empty; a
\* write replaces the element at a position; a call that panicked has no
\* effect.
RefStep(st, c) ==
    IF c.panic
    THEN st
    ELSE IF c.op = "push"
    THEN LET q2 == Append(st.q, c.elem)
         IN [q |-> IF Len(q2) > SIZE THEN Tail(q2) ELSE q2, outs |-> st.outs]
    ELSE IF c.op = "pop"
    THEN IF st.q = << >>
         THEN [q |-> st.q, outs |-> Append(st.outs, None)]
         ELSE [q |-> Tail(st.q), outs |-> Append(st.outs, Some(Head(st.q)))]
    ELSE [q |-> [st.q EXCEPT ![c.idx + 1] = c.elem],
          outs |-> st.outs]

RECURSIVE RefRun(_)
RefRun(h) ==
    IF h = << >> THEN [q |-> << >>, outs |-> << >>]
    ELSE RefStep(RefRun(SubSeq(h, 1, Len(h) - 1)), h[Len(h)])

\* ---- what the host program observes -----------------------------------
IsPop(c) == c.op = "pop"

\* The results of the pops of a history, in call order.
PopRets(h) ==
    LET ps == SelectSeq(h, IsPop) IN [k \in 1 .. Len(ps) |-> ps[k].ret]

\* index(0) .. index(len - 1)
Indexed(self) == [k \in 1 .. len(self) |-> index(self, k - 1).ret.val]

\* The elements in the cells (start + i) mod SIZE, 0 <= i < len.
LiveCells(self) == {(self.start + i) % SIZE : i \in 0 .. (self.len - 1)}

LiveElems(self) == {self.data[c] : c \in LiveCells(self)}

Range(s) == {s[k] : k \in 1 .. Len(s)}

Count(e, s) == Cardinality({k \in 1 .. Len(s) : s[k] = e})

OnlyPushes(h) == \A k \in 1 .. Len(h) : h[k].op = "push"

\* ---- C1 ---------------------------------------------------------------
\* C1: for SIZE >= 1, a push onto a full buffer whose contents are
\* v0..v(N-1) evicts exactly v0: iteration afterwards yields v1..v(N-1)
\* followed by the pushed element, and len() is still SIZE.
C1_PushFullEvictsOldest ==
    (last.op = "push" /\ SIZE >= 1 /\ is_full(pre))
        => /\ ~last.panic
           /\ collect(buf) = Tail(collect(pre)) \o <<last.elem>>
           /\ len(buf) = SIZE

C1_Witness ==
    /\ last.op = "push"
    /\ SIZE >= 2
    /\ is_full(pre)
    /\ pre.start > 0

\* ---- C2 ---------------------------------------------------------------
\* C2: a pop of a non-empty buffer returns Some(oldest element), which is
\* what index 0 and the first item of iter() referred to before the call;
\* len() decreases by one; the remaining elements keep their order and the
\* returned element is at no index afterwards; the pops of a run return
\* elements in the order of their insertion (the pushed values are the
\* push ordinals, as long as no element was replaced through index_mut).
C2_PopReturnsOldest ==
    /\ (last.op = "pop" /\ ~is_empty(pre))
          => /\ last.ret = Some(index(pre, 0).ret.val)
             /\ last.ret = Some(Head(collect(pre)))
             /\ len(buf) = len(pre) - 1
             /\ collect(buf) = Tail(collect(pre))
             /\ Indexed(buf) = Tail(Indexed(pre))
             /\ \A k \in 1 .. len(buf) : Indexed(buf)[k] # last.ret.val
             /\ \A k \in 1 .. Len(collect(buf)) : collect(buf)[k] # last.ret.val
    /\ NWrite(hist) = 0
          => LET rs == PopRets(hist)
             IN \A j, k \in 1 .. Len(rs) :
                   (j < k /\ rs[j].some /\ rs[k].some) => rs[j].val < rs[k].val

C2_Witness ==
    /\ last.op = "pop"
    /\ last.ret.some
    /\ len(pre) >= 2
    /\ pre.start + len(pre) > SIZE
    /\ Cardinality({k \in 1 .. Len(hist) : hist[k].op = "pop" /\ hist[k].ret.some}) >= 2

\* ---- C3 ---------------------------------------------------------------
\* C3: a pop of an empty buffer, whatever its start offset, returns None
\* and leaves start, len and every cell unchanged; is_empty() is true
\* before and after.
C3_PopEmptyIsNone ==
    (last.op = "pop" /\ pre.len = 0)
        => /\ last.ret = None
           /\ buf = pre
           /\ is_empty(pre)
           /\ is_empty(buf)

C3_Witness ==
    /\ last.op = "pop"
    /\ pre.len = 0
    /\ pre.start > 0
    /\ last.ret = None

\* ---- C4 ---------------------------------------------------------------
\* C4: for SIZE >= 1, after any sequence of pushes and pops the length, the
\* sequence index(0)..index(len-1) and the results of the pops are those of
\* the reference bounded FIFO queue run on the same calls.
C4_RefinesBoundedFifo ==
    (SIZE >= 1 /\ NWrite(hist) = 0)
        => LET ref == RefRun(hist)
           IN /\ len(buf) = Len(ref.q)
              /\ Indexed(buf) = ref.q
              /\ PopRets(hist) = ref.outs

C4_Witness ==
    /\ SIZE >= 2
    /\ NWrite(hist) = 0
    /\ Len(hist) >= 5
    /\ NPush(hist) > SIZE
    /\ last.op = "pop"
    /\ last.ret.some
    /\ buf.len > 0
    /\ buf.start + buf.len > SIZE

\* ---- C5 ---------------------------------------------------------------
\* C5: after exactly SIZE pushes of distinct elements onto a new buffer,
\* len() = SIZE, is_full() is true and iter() yields the elements pushed,
\* in the order pushed.
C5_FillToCapacity ==
    (Len(hist) = SIZE /\ OnlyPushes(hist))
        => /\ len(buf) = SIZE
           /\ is_full(buf)
           /\ collect(buf) = [k \in 1 .. SIZE |-> hist[k].elem]

C5_Witness ==
    /\ SIZE >= 2
    /\ Len(hist) = SIZE
    /\ OnlyPushes(hist)
    /\ last.op = "push"

\* ---- C6 ---------------------------------------------------------------
\* C6: for 0 <= i < len(), index(i) returns the content of the cell
\* (start + i) mod SIZE, which is the i-th oldest live element (the i-th
\* element of the reference queue) and the i-th item of iter(); index(0) is
\* the oldest element in the buffer.
C6_IndexIsIthOldest ==
    /\ \A i \in 0 .. (len(buf) - 1) :
          /\ ~index(buf, i).panic
          /\ index(buf, i).ret = Some(buf.data[(buf.start + i) % SIZE])
          /\ index(buf, i).ret = Some(RefRun(hist).q[i + 1])
          /\ index(buf, i).ret = Some(collect(buf)[i + 1])
    /\ (last.op = "index" /\ last.idx < len(pre))
          => /\ ~last.panic
             /\ last.ret = Some(pre.data[(pre.start + last.idx) % SIZE])
             /\ last.ret = Some(RefRun(hist).q[last.idx + 1])
             /\ last.cell = (pre.start + last.idx) % SIZE

C6_Witness ==
    /\ last.op = "index"
    /\ ~last.panic
    /\ last.idx >= 1
    /\ pre.start + last.idx >= SIZE
    /\ NPush(hist) > SIZE

\* ---- C7 ---------------------------------------------------------------
\* C7: read-only or mutable indexed access with i >= len() panics: it
\* returns no value, reads no cell (neither a live one by wrapping around
\* nor a stale or uninitialized one) and leaves the buffer unchanged.
C7_IndexOutOfRangePanics ==
    /\ \A i \in 0 .. (MaxSize + 1) :
          i >= len(buf) =>
             /\ index(buf, i).panic /\ index(buf, i).cell = NoIdx
             /\ index_mut(buf, i).panic /\ index_mut(buf, i).cell = NoIdx
    /\ ((last.op = "index" \/ last.op = "index_mut") /\ last.idx >= len(pre))
          => /\ last.panic
             /\ last.ret = None
             /\ last.cell = NoIdx
             /\ buf = pre

C7_Witness ==
    /\ last.op = "index"
    /\ last.panic
    /\ SIZE >= 2
    /\ pre.len > 0
    /\ pre.len < SIZE
    /\ last.idx = pre.len
    /\ pre.data[(pre.start + last.idx) % SIZE] # Uninit

\* ---- C8 ---------------------------------------------------------------
\* C8: when the buffer is destroyed, exactly the elements in the live cells
\* are released, each exactly once, and no element of a cell outside the
\* live range is released.
C8_DropReleasesLive ==
    last.op = "drop"
        => /\ Range(drop(pre)) = LiveElems(pre)
           /\ \A e \in LiveElems(pre) : Count(e, drop(pre)) = 1
           /\ \A e \in LiveElems(pre) : Count(e, dropped) = 1

\* ---- C9 ---------------------------------------------------------------
\* C9: a push onto a full buffer releases the evicted oldest element
\* exactly once as part of that push, and no element is ever released
\* twice.
C9_EvictionReleases ==
    /\ (last.op = "push" /\ ~last.panic /\ is_full(pre))
          => Count(pre.data[pre.start], dropped) = 1
    /\ \A k \in 1 .. Len(dropped) : Count(dropped[k], dropped) = 1

\* ---- C10 --------------------------------------------------------------
\* C10: for SIZE = 0 every operation is a no-op that raises no fault: push
\* succeeds and leaves the buffer unchanged, pop returns None, len() is 0,
\* and is_empty() and is_full() are both true.
C10_ZeroCapacityNoFault ==
    SIZE = 0
        => /\ (last.op = "push" => (~last.panic /\ buf = pre))
           /\ (last.op = "pop" => (last.ret = None /\ buf = pre))
           /\ len(buf) = 0
           /\ is_empty(buf)
           /\ is_full(buf)

\* ---- C11 --------------------------------------------------------------
\* C11: for 0 <= i < len(), replacing the element through index_mut(i)
\* changes only the value at logical position i: start, len, the values at
\* every other logical position, their order and every cell outside the
\* live range are unchanged.
C11_IndexMutFrame ==
    (last.op = "index_mut" /\ last.idx < len(pre))
        => /\ ~last.panic
           /\ buf.start = pre.start
           /\ buf.len = pre.len
           /\ Indexed(buf) = [Indexed(pre) EXCEPT ![last.idx + 1] = last.elem]
           /\ collect(buf) = [collect(pre) EXCEPT ![last.idx + 1] = last.elem]
           /\ \A c \in Cells : c \notin LiveCells(pre) => buf.data[c] = pre.data[c]
           /\ \A c \in Cells :
                 c # (pre.start + last.idx) % SIZE => buf.data[c] = pre.data[c]

C11_Witness ==
    /\ last.op = "index_mut"
    /\ ~last.panic
    /\ last.idx >= 1
    /\ pre.start + last.idx >= SIZE
    /\ pre.len < SIZE
    /\ \E c \in Cells : c \notin LiveCells(pre) /\ pre.data[c] # Uninit

\* ---- C12 --------------------------------------------------------------
\* The buffer the code produces from a new one by the calls of a history.
RECURSIVE Replay(_)
Replay(h) ==
    IF h = << >> THEN new
    ELSE LET b == Replay(SubSeq(h, 1, Len(h) - 1))
             c == h[Len(h)]
         IN IF c.panic THEN b
            ELSE IF c.op = "push" THEN push(b, c.elem).self
            ELSE IF c.op = "pop" THEN pop(b).self
            ELSE [b EXCEPT !.data[index_mut(b, c.idx).cell] = c.elem]

\* The history ends with k pushes followed by k pops, made from an empty
\* buffer.
RoundTrip(k) ==
    /\ k >= 1
    /\ Len(hist) >= 2 * k
    /\ LET n == Len(hist)
       IN /\ \A j \in (n - 2 * k + 1) .. (n - k) : hist[j].op = "push"
          /\ \A j \in (n - k + 1) .. n : hist[j].op = "pop"
          /\ is_empty(Replay(SubSeq(hist, 1, n - 2 * k)))

\* C12: from any reachable empty state, whatever its start offset, pushing
\* k <= SIZE values and then popping k times returns exactly those values
\* in the order pushed, and the buffer is empty afterwards.
C12_PushPopRoundTrip ==
    /\ Replay(hist) = buf
    /\ \A k \in 1 .. SIZE :
          RoundTrip(k)
             => /\ \A j \in 1 .. k :
                      hist[Len(hist) - k + j].ret
                         = Some(hist[Len(hist) - 2 * k + j].elem)
                /\ len(buf) = 0
                /\ is_empty(buf)

C12_Witness ==
    /\ RoundTrip(2)
    /\ Replay(SubSeq(hist, 1, Len(hist) - 4)).start = SIZE - 1
    /\ last.op = "pop"

\* ---- C13 --------------------------------------------------------------
\* C13: each call of iter() creates an independent cursor starting at index
\* 0 whose successive next() calls yield exactly len() items, index(0),
\* index(1), .., index(len - 1) in that order, and then return None;
\* advancing one cursor affects neither another cursor nor the buffer.
C13_IterYieldsIndexed ==
    /\ \A c \in Cursors :
          iters[c] # NoIter
             => /\ iters[c].idx \in 0 .. len(buf)
                /\ iters[c].out = SubSeq(Indexed(buf), 1, iters[c].idx)
    /\ last.op = "iter"
          => /\ iters[last.idx] = [idx |-> 0, out |-> << >>]
             /\ \A d \in Cursors \ {last.idx} : iters[d] = preIters[d]
             /\ buf = pre
    /\ last.op = "next"
          => LET p == preIters[last.idx]
             IN /\ p.idx < len(pre)
                      => /\ last.ret = index(pre, p.idx).ret
                         /\ iters[last.idx].idx = p.idx + 1
                         /\ iters[last.idx].out = Append(p.out, last.ret.val)
                /\ last.ret = None <=> Len(p.out) = len(pre)
                /\ last.ret = None
                      => /\ p.out = Indexed(pre)
                         /\ iters[last.idx] = p
                /\ \A d \in Cursors \ {last.idx} : iters[d] = preIters[d]
                /\ buf = pre

C13_Witness ==
    /\ last.op = "next"
    /\ last.ret = None
    /\ len(buf) >= 2
    /\ buf.start + buf.len > SIZE
    /\ \E d \in Cursors \ {last.idx} :
          /\ iters[d] # NoIter
          /\ iters[d].idx > 0
          /\ iters[d].idx < len(buf)

\* ---- C20 --------------------------------------------------------------
\* C20: after j calls of next() on a cursor of a buffer with len elements,
\* size_hint() returns a lower bound that is at most, and an upper bound
\* that is at least, the number of items next() will still yield, len - j.
C20_SizeHintBoundsRemaining ==
    /\ \A c \in Cursors :
          iters[c] # NoIter
             => LET h == size_hint(buf, [idx |-> iters[c].idx])
                    remaining == Len(Drain(buf, [idx |-> iters[c].idx]))
                IN /\ remaining = len(buf) - Len(iters[c].out)
                   /\ h[1] <= remaining
                   /\ h[2].some => h[2].val >= remaining
    /\ last.op = "size_hint"
          => LET remaining == len(pre) - Len(preIters[last.idx].out)
             IN /\ last.elem <= remaining
                /\ last.ret.some => last.ret.val >= remaining

\* ---- C14 --------------------------------------------------------------
\* The next push would overwrite a live value and leave len as it is.
WouldEvict(self) ==
    LET r == push(self, Fresh(hist))
    IN /\ ~r.panic
       /\ r.cell \in LiveCells(self)
       /\ len(r.self) = len(self)

\* The next push would grow the buffer by one element.
WouldGrow(self) ==
    LET r == push(self, Fresh(hist))
    IN /\ ~r.panic
       /\ len(r.self) = len(self) + 1

\* C14: is_empty() is true exactly when len = 0 and is_full() exactly when
\* len = SIZE; is_full() is true exactly when the next push would overwrite
\* (evict) a live value rather than grow the buffer.
C14_EmptyFullPredicates ==
    /\ is_empty(buf) <=> buf.len = 0
    /\ is_full(buf) <=> buf.len = SIZE
    /\ is_full(buf) <=> (WouldEvict(buf) /\ ~WouldGrow(buf))
    /\ ~is_full(buf) <=> (WouldGrow(buf) /\ ~WouldEvict(buf))

\* ---- C15 --------------------------------------------------------------
\* C15: for SIZE >= 1, in every state reachable from new() 0 <= len <= SIZE
\* and 0 <= start < SIZE; a new buffer has start = 0 and len = 0.
C15_StartLenInRange ==
    /\ SIZE >= 1
          => /\ 0 <= buf.len /\ buf.len <= SIZE
             /\ 0 <= buf.start /\ buf.start < SIZE
    /\ new.start = 0 /\ new.len = 0
    /\ last.op = "new" => (buf.start = 0 /\ buf.len = 0)

C15_Witness ==
    /\ SIZE >= 2
    /\ buf.len = SIZE
    /\ buf.start = SIZE - 1
    /\ last.op = "push"

\* ---- C16 --------------------------------------------------------------
\* The values popped by the calls of a history.
PoppedVals(h) == {h[k].ret.val : k \in {j \in 1 .. Len(h) : h[j].op = "pop" /\ h[j].ret.some}}

\* The values handed to the buffer by the calls of a history.
WrittenVals(h) == {h[k].elem : k \in {j \in 1 .. Len(h) : h[j].op = "push" \/ h[j].op = "index_mut"}}

\* C16: every cell (start + i) mod SIZE, 0 <= i < len, holds a value that
\* was written and has not since been popped or evicted, and every read of
\* a cell as a T (by pop, index, index_mut or Iter::next) targets a cell of
\* that live range: no never-written cell and no cell vacated by pop is
\* read.
C16_ReadsTargetLiveCells ==
    /\ \A c \in LiveCells(buf) :
          /\ buf.data[c] # Uninit
          /\ buf.data[c] \in WrittenVals(hist)
          /\ buf.data[c] \notin PoppedVals(hist)
          /\ buf.data[c] \in Range(RefRun(hist).q)
    /\ Cardinality(LiveCells(buf)) = buf.len
    /\ ((last.op = "pop" \/ last.op = "index" \/ last.op = "index_mut")
           /\ last.cell # NoIdx)
          => /\ last.cell \in LiveCells(pre)
             /\ pre.data[last.cell] # Uninit
             /\ last.ret = Some(pre.data[last.cell])
    /\ (last.op = "pop" /\ last.ret.some) => last.cell # NoIdx
    /\ ((last.op = "index" \/ last.op = "index_mut") /\ ~last.panic)
          => last.cell # NoIdx
    /\ \A j \in 0 .. len(buf) :
          LET r == next(buf, [idx |-> j])
          IN IF r.ret.some
             THEN r.cell \in LiveCells(buf) /\ r.ret = Some(buf.data[r.cell])
             ELSE r.cell = NoIdx

C16_Witness ==
    /\ last.op = "pop"
    /\ last.cell # NoIdx
    /\ \E c \in Cells : pre.data[c] = Uninit
    /\ \E c \in Cells \ LiveCells(pre) : pre.data[c] \in PoppedVals(hist)

\* ---- C17 --------------------------------------------------------------
\* C17: every value pushed is handed to a caller by pop at most once: after
\* pop returns a value the vacated cell is outside the live range and is
\* not read as live (by pop, index or iteration) until a later push
\* overwrites it, and pop releases nothing.
C17_PoppedAtMostOnce ==
    /\ LET rs == PopRets(hist)
       IN \A j, k \in 1 .. Len(rs) :
             (j < k /\ rs[j].some /\ rs[k].some) => rs[j].val # rs[k].val
    /\ (last.op = "pop" /\ last.ret.some)
          => /\ last.cell \notin LiveCells(buf)
             /\ last.ret.val \notin Range(dropped)
             /\ last.ret.val \notin Range(Indexed(buf))
    /\ ((last.op = "index" \/ last.op = "index_mut") /\ ~last.panic)
          => last.ret.val \notin PoppedVals(hist)
    /\ \A k \in 1 .. len(buf) : Indexed(buf)[k] \notin PoppedVals(hist)
    /\ \A k \in 1 .. Len(collect(buf)) : collect(buf)[k] \notin PoppedVals(hist)

C17_Witness ==
    /\ last.op = "index"
    /\ ~last.panic
    /\ NPush(hist) > SIZE
    /\ \E c \in Cells \ LiveCells(buf) : buf.data[c] \in PoppedVals(hist)
    /\ \E c \in LiveCells(buf) : pre.data[c] > Cardinality(PoppedVals(hist)) + 1

\* ---- C18 --------------------------------------------------------------
\* The frame of push for SIZE >= 1, where the cell (start + len) mod SIZE
\* exists: the new value goes into that cell and no other cell changes; a
\* full buffer advances start and keeps len, any other keeps start and
\* grows by one.
C18_PushFrame ==
    (last.op = "push" /\ SIZE >= 1)
        => /\ ~last.panic
           /\ last.cell = (pre.start + pre.len) % SIZE
           /\ buf.data = [pre.data EXCEPT ![last.cell] = last.elem]
           /\ IF pre.len = SIZE
              THEN /\ last.cell = pre.start
                   /\ buf.start = (pre.start + 1) % SIZE
                   /\ buf.len = SIZE
              ELSE /\ buf.start = pre.start
                   /\ buf.len = pre.len + 1

C18_Witness ==
    /\ last.op = "push"
    /\ SIZE >= 2
    /\ pre.len = SIZE
    /\ pre.start = SIZE - 1
    /\ buf.start = 0

\* C18: push always writes the new value into the cell (start + len) mod
\* SIZE of the state before and modifies no other cell.  If the buffer was
\* full (len = SIZE) that cell is the cell at start, start becomes
\* (start + 1) mod SIZE and len stays SIZE; otherwise start is unchanged
\* and len increases by exactly one.
C18_PushAlwaysWrites ==
    last.op = "push"
        => /\ ~last.panic
           /\ last.cell # NoIdx
           /\ last.cell = (pre.start + pre.len) % SIZE
           /\ buf.data = [pre.data EXCEPT ![last.cell] = last.elem]
           /\ IF pre.len = SIZE
              THEN /\ last.cell = pre.start
                   /\ buf.start = (pre.start + 1) % SIZE
                   /\ buf.len = SIZE
              ELSE /\ buf.start = pre.start
                   /\ buf.len = pre.len + 1

\* ---- C19 --------------------------------------------------------------
Min(a, b) == IF a < b THEN a ELSE b

\* The ordinal (from 0) of the last of k pushes that went to cell j.
LastPushTo(j, k) ==
    CHOOSE m \in 0 .. (k - 1) :
        /\ m % SIZE = j
        /\ \A n \in 0 .. (k - 1) : n % SIZE = j => n <= m

\* C19: for SIZE >= 1, after k pushes v0..v(k-1) onto a new buffer and no
\* pop, cell j (j < min(k, SIZE)) holds the most recently pushed vm with
\* m mod SIZE = j, and the logical order is the last min(k, SIZE) values
\* pushed; a following pop leaves every cell untouched and only advances
\* start and decrements len.
C19_PhysicalLayout ==
    /\ (SIZE >= 1 /\ OnlyPushes(hist))
          => LET k == Len(hist)
                 n == Min(k, SIZE)
             IN /\ \A j \in 0 .. (n - 1) :
                      buf.data[j] = hist[LastPushTo(j, k) + 1].elem
                /\ Indexed(buf) = [i \in 1 .. n |-> hist[k - n + i].elem]
    /\ (SIZE >= 1 /\ last.op = "pop" /\ Len(hist) >= 2
           /\ OnlyPushes(SubSeq(hist, 1, Len(hist) - 1)))
          => /\ buf.data = pre.data
             /\ buf.start = (pre.start + 1) % SIZE
             /\ buf.len = pre.len - 1
             /\ last.ret = Some(pre.data[pre.start])

C19_Witness ==
    /\ SIZE >= 3
    /\ last.op = "pop"
    /\ Len(hist) = SIZE + 2
    /\ OnlyPushes(SubSeq(hist, 1, Len(hist) - 1))
    /\ buf.data[0] = hist[SIZE + 1].elem
    /\ last.ret = Some(hist[2].elem)

====
